---------------------------- MODULE Spec2Model ----------------------------
(***************************************************************************)
(* A model of the wellness log's analytics engine: the correlation sweeps  *)
(* and the lag profile of backend/app/routers/analytics.py and the streak  *)
(* statistics of backend/app/routers/habits.py.                            *)
(*                                                                         *)
(* Dates are day numbers.  An optional value (a nullable column, an        *)
(* omitted query parameter) is the empty sequence or a one-element         *)
(* sequence.  A daily mean is an exact fraction [num, den] in lowest       *)
(* terms.  scipy.stats.pearsonr is outside the repository: each call       *)
(* returns one of PearsonOutcomes, chosen by the environment.              *)
(***************************************************************************)
EXTENDS Integers, Sequences, FiniteSets, TLC

(* ------------------------------ bounds ------------------------------- *)

\* Entry histories handed to get_habit_stats hold at most MaxEntries rows,
\* dated 1..MaxDate.
MaxEntries == 4
MaxDate == 3

(* ------------------------- optional values --------------------------- *)

None == <<>>
Some(v) == <<v>>
IsNone(o) == o = <<>>
Get(o) == o[1]

Max(a, b) == IF a >= b THEN a ELSE b
Min(a, b) == IF a <= b THEN a ELSE b
Abs(a) == IF a < 0 THEN -a ELSE a

RECURSIVE Gcd(_, _)
Gcd(a, b) == IF b = 0 THEN a ELSE Gcd(b, a % b)

\* The exact value num/den (den > 0) in lowest terms.
Frac(num, den) ==
    LET g == Gcd(Abs(num), den)
    IN  [num |-> num \div g, den |-> den \div g]

\* Python's round(): the multiple of 1 nearest to num/den, a tie going to
\* the even neighbour (num >= 0, den > 0).
RoundHalfEven(num, den) ==
    LET q == num \div den
        r == num % den
    IN  IF 2 * r < den THEN q
        ELSE IF 2 * r > den THEN q + 1
        ELSE IF q % 2 = 0 THEN q ELSE q + 1

(* ------------------------------ state -------------------------------- *)

VARIABLES
    habits,             \* rows of the habits table: [id, is_active]
    habit_entries,      \* rows of the habit entries table, in row order
    lifestyle_factors,  \* ids of the lifestyle_factors rows, in row order
    lifestyle_factor_entries,   \* rows [lifestyle_factor_id, date, completed]
    wellbeing_entries,  \* rows [date, mood_score, energy_level, ...]
    pandas_isfinite,    \* whether the installed pandas resolves pd.isfinite
    request,            \* the request being answered, [op |-> "none"] when idle
    merged,             \* the aligned tables the handler built, by <<factor, metric, lag>>
    outcomes,           \* what its pearsonr calls returned, by the same keys
    response,           \* its response, [status |-> 0] when idle
    pending             \* per worker, the create_habit_entry call it is inside of

store == <<habits, habit_entries, lifestyle_factors, lifestyle_factor_entries,
           wellbeing_entries, pandas_isfinite>>

vars == <<store, request, merged, outcomes, response, pending>>

\* The workers that may be inside create_habit_entry at the same time.
MaxWorkers == 2
Workers == 1..MaxWorkers

NoPending == [w \in Workers |-> <<>>]

NoTables == <<>>

NoRequest == [op |-> "none"]
NoResponse == [status |-> 0]

HTTPException(status_code) == [status |-> status_code]
Ok(body) == [status |-> 200, body |-> body]

(* --------------------------- habits.py ------------------------------- *)

RECURSIVE InsertByDate(_, _)
\* e placed after every row dated <= e.date: one step of a stable sort.
InsertByDate(sorted, e) ==
    IF sorted = <<>> THEN <<e>>
    ELSE IF sorted[Len(sorted)].date <= e.date THEN Append(sorted, e)
    ELSE Append(InsertByDate(SubSeq(sorted, 1, Len(sorted) - 1), e),
                sorted[Len(sorted)])

RECURSIVE SortByDate(_)
\* order_by(date) and sorted(entries, key=date): stable, rows of one date
\* keep their row order.
SortByDate(entries) ==
    IF entries = <<>> THEN <<>>
    ELSE InsertByDate(SortByDate(SubSeq(entries, 1, Len(entries) - 1)),
                      entries[Len(entries)])

RECURSIVE LongestStreakLoopGap(_, _, _, _)
\* A variant that also restarts the run at a calendar gap.
LongestStreakLoopGap(sorted_entries, i, temp_streak, longest_streak) ==
    IF i > Len(sorted_entries) THEN longest_streak
    ELSE IF sorted_entries[i].completed
    THEN LET t == IF i > 1 /\ sorted_entries[i].date - sorted_entries[i - 1].date > 1
                  THEN 1 ELSE temp_streak + 1
         IN  LongestStreakLoopGap(sorted_entries, i + 1, t, Max(longest_streak, t))
    ELSE LongestStreakLoopGap(sorted_entries, i + 1, 0, longest_streak)

RECURSIVE LongestStreakLoop(_, _, _, _)
\* for i, entry in enumerate(sorted_entries): ...
LongestStreakLoop(sorted_entries, i, temp_streak, longest_streak) ==
    IF i > Len(sorted_entries) THEN longest_streak
    ELSE IF sorted_entries[i].completed
    THEN LongestStreakLoop(sorted_entries, i + 1, temp_streak + 1,
                           Max(longest_streak, temp_streak + 1))
    ELSE LongestStreakLoop(sorted_entries, i + 1, 0, longest_streak)

RECURSIVE CurrentStreakLoopNoWindow(_, _, _, _)
\* A variant without the recency window.
CurrentStreakLoopNoWindow(sorted_entries, i, today, current_streak) ==
    IF i < 1 THEN current_streak
    ELSE IF sorted_entries[i].date > today
    THEN CurrentStreakLoopNoWindow(sorted_entries, i - 1, today, current_streak)
    ELSE IF sorted_entries[i].completed
    THEN CurrentStreakLoopNoWindow(sorted_entries, i - 1, today, current_streak + 1)
    ELSE current_streak

RECURSIVE CurrentStreakLoopNoBreak(_, _, _, _)
\* A variant that passes over an incomplete entry instead of stopping.
CurrentStreakLoopNoBreak(sorted_entries, i, today, current_streak) ==
    IF i < 1 THEN current_streak
    ELSE IF sorted_entries[i].date > today
    THEN CurrentStreakLoopNoBreak(sorted_entries, i - 1, today, current_streak)
    ELSE IF /\ sorted_entries[i].completed
            /\ today - sorted_entries[i].date <= Len(sorted_entries)
    THEN CurrentStreakLoopNoBreak(sorted_entries, i - 1, today, current_streak + 1)
    ELSE CurrentStreakLoopNoBreak(sorted_entries, i - 1, today, current_streak)

RECURSIVE CurrentStreakLoop(_, _, _, _)
\* for entry in reversed(sorted_entries): ...; i is the position of entry.
CurrentStreakLoop(sorted_entries, i, today, current_streak) ==
    IF i < 1 THEN current_streak
    ELSE IF sorted_entries[i].date > today
    THEN CurrentStreakLoop(sorted_entries, i - 1, today, current_streak)
    ELSE IF /\ sorted_entries[i].completed
            /\ today - sorted_entries[i].date <= Len(sorted_entries)
    THEN CurrentStreakLoop(sorted_entries, i - 1, today, current_streak + 1)
    ELSE current_streak

\* A variant that truncates instead of rounding.
CompletionRateTruncated(completed_days, total_days) ==
    IF total_days > 0 THEN (completed_days * 10000) \div total_days ELSE 0

\* completion_rate in hundredths of a percent point: round(c / t * 100, 2).
CompletionRate(completed_days, total_days) ==
    IF total_days > 0 THEN RoundHalfEven(completed_days * 10000, total_days) ELSE 0

HabitEntriesOf(habit_id) ==
    LET Mine(e) == e.habit_id = habit_id
    IN  SortByDate(SelectSeq(habit_entries, Mine))

\* A variant that answers "not found" for a habit without entries.
EmptyStatsNotFound(habit_id) == HTTPException(404)

\* if not entries: return schemas.HabitStats(... all zero ...)
EmptyStats(habit_id) ==
    Ok([habit_id |-> habit_id, total_days |-> 0, completed_days |-> 0,
        completion_rate |-> 0, current_streak |-> 0, longest_streak |-> 0])

HabitStats(habit_id, today) ==
    IF ~ \E i \in 1..Len(habits) : habits[i].id = habit_id
    THEN HTTPException(404)
    ELSE LET entries == HabitEntriesOf(habit_id)
             sorted_entries == SortByDate(entries)
             Completed(e) == e.completed
             total_days == Len(entries)
             completed_days == Len(SelectSeq(entries, Completed))
         IN  IF entries = <<>>
             THEN EmptyStats(habit_id)
             ELSE Ok([habit_id |-> habit_id,
                      total_days |-> total_days,
                      completed_days |-> completed_days,
                      completion_rate |-> CompletionRate(completed_days, total_days),
                      current_streak |->
                          CurrentStreakLoop(sorted_entries, Len(sorted_entries), today, 0),
                      longest_streak |-> LongestStreakLoop(sorted_entries, 1, 0, 0)])

\* A variant that creates a first entry for a habit that has none.
get_habit_stats_creating(habit_id, today) ==
    /\ request = NoRequest
    /\ request' = [op |-> "get_habit_stats", habit_id |-> habit_id, today |-> today]
    /\ response' = HabitStats(habit_id, today)
    /\ merged' = NoTables
    /\ outcomes' = NoTables
    /\ habit_entries' =
          IF /\ \E i \in DOMAIN habits : habits[i].id = habit_id
             /\ HabitEntriesOf(habit_id) = <<>>
          THEN Append(habit_entries,
                      [habit_id |-> habit_id, date |-> today, completed |-> FALSE])
          ELSE habit_entries
    /\ UNCHANGED <<habits, lifestyle_factors, lifestyle_factor_entries,
                   wellbeing_entries, pandas_isfinite, pending>>

\* GET /{habit_id}/stats; today is what date.today() returns.
get_habit_stats(habit_id, today) ==
    /\ request = NoRequest
    /\ request' = [op |-> "get_habit_stats", habit_id |-> habit_id, today |-> today]
    /\ response' = HabitStats(habit_id, today)
    /\ merged' = NoTables
    /\ outcomes' = NoTables
    /\ UNCHANGED <<store, pending>>

\* The response is sent and the worker takes the next request.
Respond ==
    /\ request # NoRequest
    /\ request' = NoRequest
    /\ response' = NoResponse
    /\ merged' = NoTables
    /\ outcomes' = NoTables
    /\ UNCHANGED <<store, pending>>

(* ------------------- habits.py: habits and entries ------------------- *)

\* The position of the row a query by id finds, 0 when there is none.
HabitRow(habit_id) ==
    IF \E i \in DOMAIN habits : habits[i].id = habit_id
    THEN CHOOSE i \in DOMAIN habits : habits[i].id = habit_id
    ELSE 0

\* The id the autoincrement primary key gives to a new row.
NextHabitId ==
    IF habits = <<>> THEN 1
    ELSE 1 + (CHOOSE n \in {habits[i].id : i \in DOMAIN habits} :
                 \A i \in DOMAIN habits : habits[i].id <= n)

\* The number of habit rows and of entry rows the model lets the tables hold.
MaxHabits == 2
MaxStored == 2

\* POST /
create_habit(name) ==
    /\ request = NoRequest
    /\ Len(habits) < MaxHabits
    /\ LET db_habit == [id |-> NextHabitId, name |-> name, is_active |-> TRUE]
       IN  /\ habits' = Append(habits, db_habit)
           /\ request' = [op |-> "create_habit", name |-> name]
           /\ response' = Ok(db_habit)
    /\ merged' = NoTables
    /\ outcomes' = NoTables
    /\ UNCHANGED <<habit_entries, lifestyle_factors, lifestyle_factor_entries,
                   wellbeing_entries, pandas_isfinite, pending>>

\* GET /; order_by(created_at) is the order in which the rows were made.
get_habits(include_inactive) ==
    /\ request = NoRequest
    /\ request' = [op |-> "get_habits", include_inactive |-> include_inactive]
    /\ LET Listed(h) == include_inactive \/ h.is_active = TRUE
       IN  response' = Ok(SelectSeq(habits, Listed))
    /\ merged' = NoTables
    /\ outcomes' = NoTables
    /\ UNCHANGED <<store, pending>>

\* GET /{habit_id}
get_habit(habit_id) ==
    /\ request = NoRequest
    /\ request' = [op |-> "get_habit", habit_id |-> habit_id]
    /\ response' = IF HabitRow(habit_id) = 0 THEN HTTPException(404)
                   ELSE Ok(habits[HabitRow(habit_id)])
    /\ merged' = NoTables
    /\ outcomes' = NoTables
    /\ UNCHANGED <<store, pending>>

\* The row with the fields of update_data that were set; an unset field is
\* the empty sequence.
ApplyUpdate(db_habit, update_data) ==
    [db_habit EXCEPT
        !.name = IF IsNone(update_data.name) THEN @ ELSE Get(update_data.name),
        !.is_active = IF IsNone(update_data.is_active) THEN @
                      ELSE Get(update_data.is_active)]

\* PUT /{habit_id}
update_habit(habit_id, update_data) ==
    /\ request = NoRequest
    /\ request' = [op |-> "update_habit", habit_id |-> habit_id,
                   update_data |-> update_data]
    /\ habits' = IF HabitRow(habit_id) = 0 THEN habits
                  ELSE [habits EXCEPT ![HabitRow(habit_id)] =
                                         ApplyUpdate(@, update_data)]
    /\ response' = IF HabitRow(habit_id) = 0 THEN HTTPException(404)
                   ELSE Ok(habits'[HabitRow(habit_id)])
    /\ merged' = NoTables
    /\ outcomes' = NoTables
    /\ UNCHANGED <<habit_entries, lifestyle_factors, lifestyle_factor_entries,
                   wellbeing_entries, pandas_isfinite, pending>>

\* A variant that deletes the row, and with it the habit's entries.
delete_habit_hard(habit_id) ==
    /\ request = NoRequest
    /\ request' = [op |-> "delete_habit", habit_id |-> habit_id]
    /\ response' = IF HabitRow(habit_id) = 0 THEN HTTPException(404)
                   ELSE Ok([message |-> "Habit deleted successfully"])
    /\ LET Others(h) == h.id # habit_id
           OfOthers(e) == e.habit_id # habit_id
       IN  /\ habits' = SelectSeq(habits, Others)
           /\ habit_entries' = IF HabitRow(habit_id) = 0 THEN habit_entries
                               ELSE SelectSeq(habit_entries, OfOthers)
    /\ merged' = NoTables
    /\ outcomes' = NoTables
    /\ UNCHANGED <<lifestyle_factors, lifestyle_factor_entries,
                   wellbeing_entries, pandas_isfinite, pending>>

\* DELETE /{habit_id}
delete_habit(habit_id) ==
    /\ request = NoRequest
    /\ request' = [op |-> "delete_habit", habit_id |-> habit_id]
    /\ habits' = IF HabitRow(habit_id) = 0 THEN habits
                  ELSE [habits EXCEPT ![HabitRow(habit_id)].is_active = FALSE]
    /\ response' = IF HabitRow(habit_id) = 0 THEN HTTPException(404)
                   ELSE Ok([message |-> "Habit deleted successfully"])
    /\ merged' = NoTables
    /\ outcomes' = NoTables
    /\ UNCHANGED <<habit_entries, lifestyle_factors, lifestyle_factor_entries,
                   wellbeing_entries, pandas_isfinite, pending>>

\* POST /{habit_id}/archive
archive_habit(habit_id) ==
    /\ request = NoRequest
    /\ request' = [op |-> "archive_habit", habit_id |-> habit_id]
    /\ habits' = IF HabitRow(habit_id) = 0 THEN habits
                  ELSE [habits EXCEPT ![HabitRow(habit_id)].is_active = FALSE]
    /\ response' = IF HabitRow(habit_id) = 0 THEN HTTPException(404)
                   ELSE Ok(habits'[HabitRow(habit_id)])
    /\ merged' = NoTables
    /\ outcomes' = NoTables
    /\ UNCHANGED <<habit_entries, lifestyle_factors, lifestyle_factor_entries,
                   wellbeing_entries, pandas_isfinite, pending>>

\* POST /{habit_id}/unarchive
unarchive_habit(habit_id) ==
    /\ request = NoRequest
    /\ request' = [op |-> "unarchive_habit", habit_id |-> habit_id]
    /\ habits' = IF HabitRow(habit_id) = 0 THEN habits
                  ELSE [habits EXCEPT ![HabitRow(habit_id)].is_active = TRUE]
    /\ response' = IF HabitRow(habit_id) = 0 THEN HTTPException(404)
                   ELSE Ok(habits'[HabitRow(habit_id)])
    /\ merged' = NoTables
    /\ outcomes' = NoTables
    /\ UNCHANGED <<habit_entries, lifestyle_factors, lifestyle_factor_entries,
                   wellbeing_entries, pandas_isfinite, pending>>

\* The rows the existence query of create_habit_entry matches.
ExistingEntries(entry) ==
    {i \in DOMAIN habit_entries :
        /\ habit_entries[i].habit_id = entry.habit_id
        /\ habit_entries[i].date = entry.date}

\* POST /entries, up to the result of the existence query: .first() has no
\* order_by, so it is any one of the matching rows; 0 stands for no row.
create_habit_entry_query(w, entry) ==
    /\ pending[w] = <<>>
    /\ Len(habit_entries) + Cardinality({v \in Workers : pending[v] # <<>>}) < MaxStored
    /\ \E existing_entry \in IF ExistingEntries(entry) = {} THEN {0}
                             ELSE ExistingEntries(entry) :
          pending' = [pending EXCEPT ![w] =
                         << [entry |-> entry, existing_entry |-> existing_entry] >>]
    /\ UNCHANGED <<store, request, merged, outcomes, response>>

\* POST /entries, from the test of existing_entry to the response: the row
\* found is updated, or a new row is added, and the change is committed.
create_habit_entry_commit(w) ==
    /\ request = NoRequest
    /\ pending[w] # <<>>
    /\ LET entry == pending[w][1].entry
           existing_entry == pending[w][1].existing_entry
       IN  /\ habit_entries' =
                 IF existing_entry # 0
                 THEN [habit_entries EXCEPT
                          ![existing_entry].completed = entry.completed,
                          ![existing_entry].notes = entry.notes]
                 ELSE Append(habit_entries, entry)
           /\ request' = [op |-> "create_habit_entry", entry |-> entry]
           /\ response' = Ok(entry)
    /\ pending' = [pending EXCEPT ![w] = <<>>]
    /\ merged' = NoTables
    /\ outcomes' = NoTables
    /\ UNCHANGED <<habits, lifestyle_factors, lifestyle_factor_entries,
                   wellbeing_entries, pandas_isfinite>>

(* -------------------------- analytics.py ----------------------------- *)

\* The keys of WELLBEING_METRICS, in the order the dict literal gives them.
WELLBEING_METRICS ==
    << "mood_score", "energy_level", "stress_level", "anxiety_level",
       "rumination_level", "anger_level", "general_health", "sleep_quality",
       "sweating_level", "libido_level" >>

MetricNames == {WELLBEING_METRICS[i] : i \in DOMAIN WELLBEING_METRICS}

\* The threshold written into each lag slot of the lag profile.
LagMinSamples == 5
\* The default of the sweeps' min_samples parameter.
DefaultMinSamples == 7

\* A variant whose bounds are exclusive.
InRangeExclusive(d, start_date, end_date) ==
    /\ IsNone(start_date) \/ d > Get(start_date)
    /\ IsNone(end_date) \/ d < Get(end_date)

\* .filter(date >= start_date) and .filter(date <= end_date), each applied
\* only when the bound is given.
InRange(d, start_date, end_date) ==
    /\ IsNone(start_date) \/ d >= Get(start_date)
    /\ IsNone(end_date) \/ d <= Get(end_date)

WellbeingQuery(start_date, end_date) ==
    LET Keep(e) == InRange(e.date, start_date, end_date)
    IN  SelectSeq(wellbeing_entries, Keep)

LifestyleFactorQuery(lifestyle_factor_id, start_date, end_date) ==
    LET Keep(e) == /\ e.lifestyle_factor_id = lifestyle_factor_id
                   /\ InRange(e.date, start_date, end_date)
    IN  SelectSeq(lifestyle_factor_entries, Keep)

\* A variant that takes a missing value as 0.
MetricDataNullAsZero(entries, metric_name) ==
    [i \in 1..Len(entries) |->
        [date |-> entries[i].date,
         value |-> IF IsNone(entries[i][metric_name]) THEN 0
                   ELSE Get(entries[i][metric_name])]]

\* The rows {"date": entry.date, metric_name: value} of the entries whose
\* value for the metric is not None.
MetricData(entries, metric_name) ==
    LET HasValue(e) == ~ IsNone(e[metric_name])
        kept == SelectSeq(entries, HasValue)
    IN  [i \in 1..Len(kept) |-> [date |-> kept[i].date,
                                 value |-> Get(kept[i][metric_name])]]

RECURSIVE SumValues(_)
SumValues(rows) ==
    IF rows = <<>> THEN 0 ELSE rows[1].value + SumValues(Tail(rows))

RECURSIVE Ascending(_)
\* The elements of a finite set of integers in ascending order.
Ascending(S) ==
    IF S = {} THEN <<>>
    ELSE LET m == CHOOSE x \in S : \A y \in S : x <= y
         IN  <<m>> \o Ascending(S \ {m})

\* A variant that aggregates with "count" instead of "mean".
GroupByDateCount(data) ==
    LET dates == Ascending({data[i].date : i \in DOMAIN data})
    IN  [k \in 1..Len(dates) |->
            LET OnDate(r) == r.date = dates[k]
            IN  [date |-> dates[k],
                 value |-> Frac(Len(SelectSeq(data, OnDate)), 1)]]

\* df.groupby("date").agg({column: "mean"}).reset_index(): one row per
\* date, dates ascending, the value the mean of that date's rows.
GroupByDateMean(data) ==
    LET dates == Ascending({data[i].date : i \in DOMAIN data})
    IN  [k \in 1..Len(dates) |->
            LET OnDate(r) == r.date = dates[k]
                rows == SelectSeq(data, OnDate)
            IN  [date |-> dates[k], value |-> Frac(SumValues(rows), Len(rows))]]

\* pd.DataFrame([{"date": entry.date, "completed": 1 if entry.completed
\* else 0} for entry in lifestyle_factor_entries]): one row per entry; the
\* completion is kept as the fraction c/1.
LifestyleFactorDf(entries) ==
    [i \in 1..Len(entries) |->
        [date |-> entries[i].date,
         value |-> Frac(IF entries[i].completed THEN 1 ELSE 0, 1)]]

\* A variant that moves the dates back instead of forward.
ShiftDatesBack(df, lag_days) ==
    [i \in 1..Len(df) |-> [df[i] EXCEPT !.date = @ - lag_days]]

\* df["date"] = df["date"] + timedelta(days=lag_days)
ShiftDates(df, lag_days) ==
    [i \in 1..Len(df) |-> [df[i] EXCEPT !.date = @ + lag_days]]

RECURSIVE MergeInner(_, _)
\* pd.merge(metric_df, lifestyle_factor_df, on="date", how="inner")
MergeInner(metric_df, lifestyle_factor_df) ==
    IF metric_df = <<>> THEN <<>>
    ELSE LET l == metric_df[1]
             OnDate(r) == r.date = l.date
             matches == SelectSeq(lifestyle_factor_df, OnDate)
         IN  [i \in 1..Len(matches) |->
                 [date |-> l.date, value |-> l.value,
                  completed |-> Some(matches[i].value)]]
             \o MergeInner(Tail(metric_df), lifestyle_factor_df)

RECURSIVE MergeLeft(_, _)
\* pd.merge(metric_df, lifestyle_factor_df, on="date", how="left"): every
\* row of metric_df in order, once per row of lifestyle_factor_df of the
\* same date, and once with completed missing (NaN) when there is none.
MergeLeft(metric_df, lifestyle_factor_df) ==
    IF metric_df = <<>> THEN <<>>
    ELSE LET l == metric_df[1]
             OnDate(r) == r.date = l.date
             matches == SelectSeq(lifestyle_factor_df, OnDate)
             rows == IF matches = <<>>
                     THEN << [date |-> l.date, value |-> l.value,
                              completed |-> None] >>
                     ELSE [i \in 1..Len(matches) |->
                             [date |-> l.date, value |-> l.value,
                              completed |-> Some(matches[i].value)]]
         IN  rows \o MergeLeft(Tail(metric_df), lifestyle_factor_df)

\* A variant that fills a missing completion with 1.
FillNaOne(df) ==
    [i \in 1..Len(df) |->
        [df[i] EXCEPT !.completed =
            IF IsNone(@) THEN Frac(1, 1) ELSE Get(@)]]

\* merged_df["completed"] = merged_df["completed"].fillna(0)
FillNa(df) ==
    [i \in 1..Len(df) |->
        [df[i] EXCEPT !.completed =
            IF IsNone(@) THEN Frac(0, 1) ELSE Get(@)]]

\* The aligned table of one (factor, metric, lag): the left join of the
\* metric's daily series with the factor's rows, shifted by lag_days.
Aligned(metric_df, lifestyle_factor_df, lag_days) ==
    FillNa(MergeLeft(metric_df, ShiftDates(lifestyle_factor_df, lag_days)))

\* Series.nunique()
NUnique(df, column) == Cardinality({df[i][column] : i \in DOMAIN df})

\* Series.std() == 0: the sample standard deviation (ddof = 1) is NaN for
\* one row, and 0 exactly when two or more rows all hold one value.
StdIsZero(df, column) == Len(df) >= 2 /\ NUnique(df, column) = 1

(* A float is finite (v counts units: 1/10000 for a coefficient, 1/100000  *)
(* for a p-value), NaN or an infinity.                                     *)
Finite(v) == [cls |-> "finite", v |-> v]
NaN == [cls |-> "nan", v |-> 0]
Inf == [cls |-> "inf", v |-> 0]

\* pd.notna(x)
NotNa(x) == x.cls # "nan"
\* pd.isfinite(x), where pandas resolves the name
IsFinite(x) == x.cls = "finite"

\* What one call of stats.pearsonr may do: return (correlation, p_value)
\* or raise.  No value lies on a rounding tie.
PearsonOutcomes ==
    { [raised |-> FALSE, correlation |-> Finite(-6004), p_value |-> Finite(4996)],
      [raised |-> FALSE, correlation |-> Finite(2996), p_value |-> Finite(40000)],
      [raised |-> FALSE, correlation |-> NaN, p_value |-> NaN],
      [raised |-> FALSE, correlation |-> Inf, p_value |-> Finite(0)],
      [raised |-> FALSE, correlation |-> Finite(10006), p_value |-> Finite(0)],
      [raised |-> TRUE, correlation |-> NaN, p_value |-> NaN] }

\* The stored history covers the days 1..HistoryDays.
HistoryDays == 7

\* At most MaxDeviations of the pearsonr calls of one request return
\* something other than BaselineOutcome.
MaxDeviations == 1

BaselineOutcome ==
    [raised |-> FALSE, correlation |-> Finite(-6004), p_value |-> Finite(4996)]

RECURSIVE SubsetsUpTo(_, _)
\* The subsets of S with at most n elements.
SubsetsUpTo(S, n) ==
    IF n = 0 THEN {{}}
    ELSE LET smaller == SubsetsUpTo(S, n - 1)
         IN  smaller \cup {D \cup {x} : D \in smaller, x \in S}

\* The outcomes of the calls of one request, by <<factor, metric, lag>>.
PearsonCalls(calls) ==
    UNION { { [k \in calls |-> IF k \in D THEN g[k] ELSE BaselineOutcome] :
                g \in [D -> PearsonOutcomes \ {BaselineOutcome}] } :
            D \in SubsetsUpTo(calls, MaxDeviations) }

\* round(x, ndigits) of a finite float, in units ten times coarser.
RoundFloat(x) ==
    IF x.v >= 0 THEN RoundHalfEven(x.v, 10) ELSE - RoundHalfEven(- x.v, 10)

\* A variant that checks the row count alone.
SweepGuardsPassNoVariation(merged_df, min_samples) ==
    ~ (Len(merged_df) < min_samples)

\* The guards of the sweeps before the correlation is computed.
SweepGuardsPass(merged_df, min_samples) ==
    /\ ~ (Len(merged_df) < min_samples)
    /\ ~ (NUnique(merged_df, "completed") < 2 \/ NUnique(merged_df, "value") < 2)
    /\ ~ (StdIsZero(merged_df, "completed") \/ StdIsZero(merged_df, "value"))

\* The try block of the sweeps: the pair is kept unless pearsonr raised, a
\* value is NaN or not finite, or the coefficient is outside [-1, 1].  The
\* lookup of pd.isfinite raises AttributeError where pandas has no such
\* name, and the except clause then skips the pair.
SweepAccepts(o) ==
    /\ ~ o.raised
    /\ NotNa(o.correlation) /\ NotNa(o.p_value)
    /\ pandas_isfinite
    /\ IsFinite(o.correlation) /\ IsFinite(o.p_value)
    /\ -10000 <= o.correlation.v /\ o.correlation.v <= 10000

\* A variant of the lag slots' condition with the threshold off by one.
LagGuardsPassOffByOne(merged_df) ==
    /\ Len(merged_df) >= LagMinSamples - 1
    /\ NUnique(merged_df, "completed") >= 2
    /\ NUnique(merged_df, "value") >= 2

\* A variant whose threshold lies above the sweeps' default.
LagGuardsPassAboveSweep(merged_df) ==
    /\ Len(merged_df) > DefaultMinSamples
    /\ NUnique(merged_df, "completed") >= 2
    /\ NUnique(merged_df, "value") >= 2

\* The condition of each lag slot before the correlation is computed.
LagGuardsPass(merged_df) ==
    /\ Len(merged_df) >= LagMinSamples
    /\ NUnique(merged_df, "completed") >= 2
    /\ NUnique(merged_df, "value") >= 2

\* The try block of each lag slot.
LagAccepts(o) ==
    /\ ~ o.raised
    /\ NotNa(o.correlation) /\ NotNa(o.p_value)
    /\ pandas_isfinite
    /\ IsFinite(o.correlation) /\ IsFinite(o.p_value)

\* schemas.CorrelationResult(...): correlation in thousandths, p_value in
\* ten-thousandths; significant is taken from the unrounded p_value.
CorrelationResult(lifestyle_factor_id, metric_name, o, merged_df) ==
    [lifestyle_factor_id |-> lifestyle_factor_id,
     metric_name |-> metric_name,
     correlation |-> RoundFloat(o.correlation),
     p_value |-> RoundFloat(o.p_value),
     significant |-> o.p_value.v < 5000,
     sample_size |-> Len(merged_df)]

RECURSIVE InsertByAbsCorrelation(_, _)
InsertByAbsCorrelation(sorted, c) ==
    IF sorted = <<>> THEN <<c>>
    ELSE IF Abs(sorted[Len(sorted)].correlation) >= Abs(c.correlation)
    THEN Append(sorted, c)
    ELSE Append(InsertByAbsCorrelation(SubSeq(sorted, 1, Len(sorted) - 1), c),
                sorted[Len(sorted)])

\* A variant that leaves the results in loop order.
SortByAbsCorrelationUnsorted(results) == results

RECURSIVE SortByAbsCorrelation(_)
\* results.sort(key=lambda x: abs(x.correlation), reverse=True): stable.
SortByAbsCorrelation(results) ==
    IF results = <<>> THEN <<>>
    ELSE InsertByAbsCorrelation(
            SortByAbsCorrelation(SubSeq(results, 1, Len(results) - 1)),
            results[Len(results)])

RECURSIVE Concat(_)
Concat(seqs) == IF seqs = <<>> THEN <<>> ELSE seqs[1] \o Concat(Tail(seqs))

\* The factors of the table that have an entry in range, in row order; the
\* loop skips the others.
FactorsWithEntries(start_date, end_date) ==
    LET HasEntries(f) == LifestyleFactorQuery(f, start_date, end_date) # <<>>
    IN  SelectSeq(lifestyle_factors, HasEntries)

\* The aligned tables of a sweep: one for each factor with entries and each
\* metric with a data frame.
SweepTables(metric_dataframes, start_date, end_date) ==
    LET fs == FactorsWithEntries(start_date, end_date)
    IN  [k \in {<<fs[i], m, 0>> : i \in DOMAIN fs, m \in DOMAIN metric_dataframes} |->
            Aligned(metric_dataframes[k[2]],
                    LifestyleFactorDf(LifestyleFactorQuery(k[1], start_date, end_date)),
                    0)]

\* A variant in which a failing pair ends the factor's loop over the
\* metrics.
FactorCorrelationsAbort(f, metric_names, tables, pearsonr, min_samples) ==
    LET Fails(j) ==
            LET k == <<f, metric_names[j], 0>>
            IN  /\ k \in DOMAIN tables
                /\ SweepGuardsPass(tables[k], min_samples)
                /\ ~ SweepAccepts(pearsonr[k])
    IN  Concat([j \in 1..Len(metric_names) |->
            LET k == <<f, metric_names[j], 0>>
            IN  IF /\ \A j2 \in 1..j : ~ Fails(j2)
                   /\ k \in DOMAIN tables
                   /\ SweepGuardsPass(tables[k], min_samples)
                THEN << CorrelationResult(f, metric_names[j], pearsonr[k], tables[k]) >>
                ELSE <<>>])

\* The results of one factor, one per metric of metric_names whose pair
\* passes every guard, in the order of metric_names.
FactorCorrelations(f, metric_names, tables, pearsonr, min_samples) ==
    Concat([j \in 1..Len(metric_names) |->
        LET k == <<f, metric_names[j], 0>>
        IN  IF /\ k \in DOMAIN tables
               /\ SweepGuardsPass(tables[k], min_samples)
               /\ SweepAccepts(pearsonr[k])
            THEN << CorrelationResult(f, metric_names[j], pearsonr[k], tables[k]) >>
            ELSE <<>>])

\* mood_df of the legacy sweep: every entry's mood_score, averaged by date.
LegacyMoodDataframes(mood_entries) ==
    IF lifestyle_factors = <<>> \/ mood_entries = <<>> THEN <<>>
    ELSE [m \in {"mood_score"} |->
            GroupByDateMean([i \in 1..Len(mood_entries) |->
                [date |-> mood_entries[i].date,
                 value |-> Get(mood_entries[i].mood_score)]])]

LegacyResults(tables, pearsonr, min_samples) ==
    SortByAbsCorrelation(Concat([i \in 1..Len(lifestyle_factors) |->
        FactorCorrelations(lifestyle_factors[i], <<"mood_score">>, tables,
                           pearsonr, min_samples)]))

\* GET /correlations
get_lifestyle_factor_mood_correlations(start_date, end_date, min_samples) ==
    /\ request = NoRequest
    /\ LET tables == SweepTables(
                        LegacyMoodDataframes(WellbeingQuery(start_date, end_date)),
                        start_date, end_date)
           calls == {k \in DOMAIN tables : SweepGuardsPass(tables[k], min_samples)}
       IN  \E pearsonr \in PearsonCalls(calls) :
              /\ request' = [op |-> "correlations", start_date |-> start_date,
                             end_date |-> end_date, min_samples |-> min_samples]
              /\ merged' = tables
              /\ outcomes' = pearsonr
              /\ response' = Ok(LegacyResults(tables, pearsonr, min_samples))
    /\ UNCHANGED <<store, pending>>

\* A variant that ignores the filter.
MetricsToAnalyzeAll(metric) == WELLBEING_METRICS

\* metrics_to_analyze: the one metric of the filter when it names a
\* declared metric, every declared metric otherwise.
MetricsToAnalyze(metric) ==
    IF ~ IsNone(metric) /\ Get(metric) \in MetricNames
    THEN << Get(metric) >>
    ELSE WELLBEING_METRICS

\* metric_dataframes: the daily series of each metric to analyze that has a
\* value in some entry.
MetricDataframes(wellbeing, metric_names) ==
    IF lifestyle_factors = <<>> \/ wellbeing = <<>> THEN <<>>
    ELSE [m \in {metric_names[j] : j \in {j \in DOMAIN metric_names :
                    MetricData(wellbeing, metric_names[j]) # <<>>}} |->
            GroupByDateMean(MetricData(wellbeing, m))]

AllCorrelations(metric_names, tables, pearsonr, min_samples) ==
    Concat([i \in 1..Len(lifestyle_factors) |->
        FactorCorrelations(lifestyle_factors[i], metric_names, tables,
                           pearsonr, min_samples)])

\* by_lifestyle_factor: a factor has a key when it has a result.
ByLifestyleFactor(metric_names, tables, pearsonr, min_samples) ==
    LET Of(f) == FactorCorrelations(f, metric_names, tables, pearsonr, min_samples)
    IN  [f \in {lifestyle_factors[i] : i \in {i \in DOMAIN lifestyle_factors :
                    Of(lifestyle_factors[i]) # <<>>}} |-> Of(f)]

\* A variant that lists each factor's results under every metric.
ByMetricUnfiltered(metric_names, all_correlations) ==
    Concat([j \in 1..Len(metric_names) |->
        IF all_correlations = <<>> THEN <<>>
        ELSE << [metric_name |-> metric_names[j],
                 correlations |-> SortByAbsCorrelation(all_correlations)] >>])

\* by_metric: for each metric to analyze, in order, its results sorted by
\* absolute correlation; a metric without results has no group.
ByMetric(metric_names, all_correlations) ==
    Concat([j \in 1..Len(metric_names) |->
        LET OfMetric(c) == c.metric_name = metric_names[j]
            metric_correlations ==
                SortByAbsCorrelation(SelectSeq(all_correlations, OfMetric))
        IN  IF metric_correlations = <<>> THEN <<>>
            ELSE << [metric_name |-> metric_names[j],
                     correlations |-> metric_correlations] >>])

\* A variant that returns a bare list, as the legacy sweep does.
EmptySweepList == <<>>

\* return {"by_metric": [], "by_lifestyle_factor": {}}
EmptySweep == [by_metric |-> <<>>, by_lifestyle_factor |-> <<>>]

\* GET /correlations/multi-metric
get_multi_metric_correlations(start_date, end_date, min_samples, metric) ==
    /\ request = NoRequest
    /\ LET metric_names == MetricsToAnalyze(metric)
           tables == SweepTables(
                        MetricDataframes(WellbeingQuery(start_date, end_date),
                                         metric_names),
                        start_date, end_date)
           calls == {k \in DOMAIN tables : SweepGuardsPass(tables[k], min_samples)}
       IN  \E pearsonr \in PearsonCalls(calls) :
              /\ request' = [op |-> "multi_metric", start_date |-> start_date,
                             end_date |-> end_date, min_samples |-> min_samples,
                             metric |-> metric]
              /\ merged' = tables
              /\ outcomes' = pearsonr
              /\ response' =
                    IF \/ lifestyle_factors = <<>>
                       \/ WellbeingQuery(start_date, end_date) = <<>>
                    THEN Ok(EmptySweep)
                    ELSE Ok(
                    [by_metric |->
                        ByMetric(metric_names,
                                 AllCorrelations(metric_names, tables, pearsonr,
                                                 min_samples)),
                     by_lifestyle_factor |->
                        ByLifestyleFactor(metric_names, tables, pearsonr,
                                          min_samples)])
    /\ UNCHANGED <<store, pending>>

\* The lag slots of the lag profile, slot i having lag i - 1.
LagSlots == << "same_day", "next_day", "two_days" >>

\* A variant that returns the shape of the normal response.
EmptyProfileNoSlots(metric) ==
    Ok([metric_name |-> metric, correlations |-> <<>>, data_points |-> <<>>])

\* The response when there is no history to correlate.
EmptyProfile(metric) ==
    Ok([metric_name |-> metric, same_day |-> None, next_day |-> None,
        two_days |-> None, data_points |-> <<>>])

\* The aligned tables of the three lag slots.
LagTables(lifestyle_factor_id, metric, wellbeing, entries) ==
    IF \/ ~ \E i \in DOMAIN lifestyle_factors :
                lifestyle_factors[i] = lifestyle_factor_id
       \/ metric \notin MetricNames
       \/ wellbeing = <<>> \/ entries = <<>>
       \/ MetricData(wellbeing, metric) = <<>>
    THEN <<>>
    ELSE [k \in {<<lifestyle_factor_id, metric, lag>> : lag \in 0..2} |->
            Aligned(GroupByDateMean(MetricData(wellbeing, metric)),
                    LifestyleFactorDf(entries), k[3])]

\* correlations: a slot has a key when its condition held and the try
\* block accepted the outcome.
LagCorrelations(lifestyle_factor_id, metric, tables, pearsonr) ==
    LET Key(i) == <<lifestyle_factor_id, metric, i - 1>>
    IN  [s \in {LagSlots[i] : i \in {i \in DOMAIN LagSlots :
                    /\ LagGuardsPass(tables[Key(i)])
                    /\ LagAccepts(pearsonr[Key(i)])}} |->
            LET i == CHOOSE i \in DOMAIN LagSlots : LagSlots[i] = s
            IN  [correlation |-> RoundFloat(pearsonr[Key(i)].correlation),
                 p_value |-> RoundFloat(pearsonr[Key(i)].p_value),
                 samples |-> Len(tables[Key(i)])]]

\* data_points: the rows of the inner join, completed as a bool.
DataPoints(metric_df, lifestyle_factor_df) ==
    LET merged_all == MergeInner(metric_df, lifestyle_factor_df)
    IN  [i \in 1..Len(merged_all) |->
            [date |-> merged_all[i].date,
             completed |-> Get(merged_all[i].completed).num # 0,
             value |-> merged_all[i].value]]

\* GET /correlations/{lifestyle_factor_id}; metric is the name after the
\* default ("mood_score" when the parameter is omitted) is applied.
LagProfile(lifestyle_factor_id, metric, wellbeing, entries, tables, pearsonr) ==
    IF ~ \E i \in DOMAIN lifestyle_factors : lifestyle_factors[i] = lifestyle_factor_id
    THEN HTTPException(404)
    ELSE IF metric \notin MetricNames
    THEN HTTPException(400)
    ELSE IF wellbeing = <<>> \/ entries = <<>>
    THEN EmptyProfile(metric)
    ELSE IF MetricData(wellbeing, metric) = <<>>
    THEN EmptyProfile(metric)
    ELSE Ok([metric_name |-> metric,
             correlations |->
                LagCorrelations(lifestyle_factor_id, metric, tables, pearsonr),
             data_points |->
                DataPoints(GroupByDateMean(MetricData(wellbeing, metric)),
                           LifestyleFactorDf(entries))])

get_lifestyle_factor_correlation_details(lifestyle_factor_id, start_date, end_date, metric_param) ==
    /\ request = NoRequest
    /\ LET metric == IF IsNone(metric_param) THEN "mood_score" ELSE Get(metric_param)
           wellbeing == WellbeingQuery(start_date, end_date)
           entries == LifestyleFactorQuery(lifestyle_factor_id, start_date, end_date)
           tables == LagTables(lifestyle_factor_id, metric, wellbeing, entries)
           calls == {k \in DOMAIN tables : LagGuardsPass(tables[k])}
       IN  \E pearsonr \in PearsonCalls(calls) :
              /\ request' = [op |-> "details",
                             lifestyle_factor_id |-> lifestyle_factor_id,
                             start_date |-> start_date, end_date |-> end_date,
                             metric |-> metric_param]
              /\ merged' = tables
              /\ outcomes' = pearsonr
              /\ response' = LagProfile(lifestyle_factor_id, metric, wellbeing,
                                        entries, tables, pearsonr)
    /\ UNCHANGED <<store, pending>>

(* ---------------------- trends and the heatmap ------------------------ *)

\* str(date): the ISO text of the day.
IsoFormat(d) == [iso |-> d]

\* The window of .rolling(window=7, min_periods=1).
RollingWindow == 7

\* The mean of a column of one group, NaN (None) when no row has a value.
ColumnMean(entries, metric_name) ==
    LET rows == MetricData(entries, metric_name)
    IN  IF rows = <<>> THEN None ELSE Some(Frac(SumValues(rows), Len(rows)))

\* df.groupby("date").agg({metric: "mean", ...}).reset_index()
DailyAvg(entries, metric_names) ==
    LET dates == Ascending({entries[i].date : i \in DOMAIN entries})
    IN  [k \in 1..Len(dates) |->
            LET OnDate(e) == e.date = dates[k]
            IN  [date |-> dates[k],
                 mean |-> [m \in metric_names |->
                              ColumnMean(SelectSeq(entries, OnDate), m)]]]

RECURSIVE SumFracs(_)
\* The exact sum of a sequence of fractions.
SumFracs(fracs) ==
    IF fracs = <<>> THEN Frac(0, 1)
    ELSE LET rest == SumFracs(Tail(fracs))
         IN  Frac(fracs[1].num * rest.den + rest.num * fracs[1].den,
                  fracs[1].den * rest.den)

\* daily_avg[metric].rolling(window=7, min_periods=1).mean() at row i: the
\* mean of the values present in the rows i-6..i, NaN when there is none.
RollingMean(daily_avg, metric_name, i) ==
    LET Present(r) == ~ IsNone(r.mean[metric_name])
        window == SelectSeq(SubSeq(daily_avg, Max(1, i - RollingWindow + 1), i),
                            Present)
        total == SumFracs([j \in 1..Len(window) |-> Get(window[j].mean[metric_name])])
    IN  IF window = <<>> THEN None
        ELSE Some(Frac(total.num, total.den * Len(window)))

\* round(value, 2) if pd.notna(value) else None, in hundredths.
RoundOrNone(value) ==
    IF IsNone(value) THEN None
    ELSE Some(RoundHalfEven(Get(value).num * 100, Get(value).den))

\* GET /trends/mood
get_mood_trends(start_date, end_date) ==
    /\ request = NoRequest
    /\ request' = [op |-> "mood_trends", start_date |-> start_date,
                   end_date |-> end_date]
    /\ LET entries == WellbeingQuery(start_date, end_date)
           daily_avg == DailyAvg(entries, {"mood_score", "energy_level",
                                           "stress_level"})
       IN  response' =
              IF entries = <<>> THEN Ok([data |-> <<>>])
              ELSE Ok([data |-> [i \in 1..Len(daily_avg) |->
                    [date |-> IsoFormat(daily_avg[i].date),
                     mood_score |-> Get(RoundOrNone(daily_avg[i].mean["mood_score"])),
                     mood_ma7 |-> Get(RoundOrNone(RollingMean(daily_avg, "mood_score", i))),
                     energy_level |-> RoundOrNone(daily_avg[i].mean["energy_level"]),
                     stress_level |-> RoundOrNone(daily_avg[i].mean["stress_level"])]]])
    /\ merged' = NoTables
    /\ outcomes' = NoTables
    /\ UNCHANGED <<store, pending>>

\* GET /trends/wellbeing; a record holds, for each metric, its daily mean
\* and its moving average.
get_wellbeing_trends(start_date, end_date) ==
    /\ request = NoRequest
    /\ request' = [op |-> "wellbeing_trends", start_date |-> start_date,
                   end_date |-> end_date]
    /\ LET entries == WellbeingQuery(start_date, end_date)
           daily_avg == DailyAvg(entries, MetricNames)
       IN  response' =
              IF entries = <<>> THEN Ok([data |-> <<>>])
              ELSE Ok([data |-> [i \in 1..Len(daily_avg) |->
                    [date |-> IsoFormat(daily_avg[i].date),
                     value |-> [m \in MetricNames |->
                                   RoundOrNone(daily_avg[i].mean[m])],
                     ma7 |-> [m \in MetricNames |->
                                 RoundOrNone(RollingMean(daily_avg, m, i))]]]])
    /\ merged' = NoTables
    /\ outcomes' = NoTables
    /\ UNCHANGED <<store, pending>>

\* The calendar of the model: a year is DaysPerYear consecutive days.
DaysPerYear == 4

\* date(year, 1, 1) and date(year, 12, 31)
FirstDayOf(year) == (year - 1) * DaysPerYear + 1
LastDayOf(year) == year * DaysPerYear

\* GET /heatmap/{lifestyle_factor_id}; this_year is what
\* datetime.now().year returns.
get_lifestyle_factor_heatmap(lifestyle_factor_id, year_param, this_year) ==
    /\ request = NoRequest
    /\ request' = [op |-> "heatmap", lifestyle_factor_id |-> lifestyle_factor_id,
                   year |-> year_param]
    /\ LET year == IF IsNone(year_param) \/ Get(year_param) = 0
                   THEN this_year ELSE Get(year_param)
           InYear(e) == /\ e.lifestyle_factor_id = lifestyle_factor_id
                        /\ e.date >= FirstDayOf(year)
                        /\ e.date <= LastDayOf(year)
           entries == SelectSeq(lifestyle_factor_entries, InYear)
       IN  response' =
              IF ~ \E i \in DOMAIN lifestyle_factors :
                      lifestyle_factors[i] = lifestyle_factor_id
              THEN HTTPException(404)
              ELSE Ok([year |-> year,
                       data |-> [i \in 1..Len(entries) |->
                           [date |-> IsoFormat(entries[i].date),
                            completed |-> entries[i].completed,
                            value |-> IF entries[i].completed THEN 1 ELSE 0]]])
    /\ merged' = NoTables
    /\ outcomes' = NoTables
    /\ UNCHANGED <<store, pending>>

(* ----------------- the streak statistics specification --------------- *)

Dates == 1..MaxDate
HabitIds == {1, 2}

HabitEntryRows == [habit_id : {1}, date : Dates, completed : BOOLEAN]

EntryHistories == UNION {[1..n -> HabitEntryRows] : n \in 0..MaxEntries}

InitStats ==
    /\ habits = <<[id |-> 1, is_active |-> TRUE]>>
    /\ habit_entries \in EntryHistories
    /\ lifestyle_factors = <<>>
    /\ lifestyle_factor_entries = <<>>
    /\ wellbeing_entries = <<>>
    /\ pandas_isfinite = TRUE
    /\ request = NoRequest
    /\ merged = NoTables
    /\ outcomes = NoTables
    /\ response = NoResponse
    /\ pending = NoPending

NextStats ==
    \/ \E habit_id \in HabitIds, today \in Dates : get_habit_stats(habit_id, today)
    \/ Respond

SpecStats == InitStats /\ [][NextStats]_vars

(* -------------------- the analytics specification -------------------- *)

\* What a day holds in wellbeing_entries: no entry, one entry with or
\* without an energy level, or two entries.
WellbeingDays ==
    { <<>>,
      << [mood_score |-> 3, energy_level |-> None] >>,
      << [mood_score |-> 4, energy_level |-> Some(2)] >>,
      << [mood_score |-> 3, energy_level |-> Some(1)],
         [mood_score |-> 4, energy_level |-> None] >> }

\* What a day holds for factor 1: no entry, a completed or an incomplete
\* entry, or one of each.
FactorDays == { <<>>, <<TRUE>>, <<FALSE>>, <<TRUE, FALSE>> }

WellbeingRow(d, w) ==
    [date |-> d, mood_score |-> Some(w.mood_score), energy_level |-> w.energy_level,
     stress_level |-> None, anxiety_level |-> None, rumination_level |-> None,
     anger_level |-> None, general_health |-> None, sleep_quality |-> None,
     sweating_level |-> None, libido_level |-> None]

\* The history alternates between what odd days and what even days hold.
OnDay(odd, even, d) == IF d % 2 = 1 THEN odd ELSE even

WellbeingHistory(odd, even) ==
    Concat([d \in 1..HistoryDays |->
        [i \in 1..Len(OnDay(odd, even, d)) |-> WellbeingRow(d, OnDay(odd, even, d)[i])]])

\* Factor 1 follows its alternation; factor 2 has one entry a day,
\* completed every third day.
FactorHistory(odd, even) ==
    Concat([d \in 1..HistoryDays |->
        [i \in 1..Len(OnDay(odd, even, d)) |->
            [lifestyle_factor_id |-> 1, date |-> d,
             completed |-> OnDay(odd, even, d)[i]]]
        \o << [lifestyle_factor_id |-> 2, date |-> d, completed |-> d % 3 = 0] >>])

Init ==
    /\ habits = <<>>
    /\ habit_entries = <<>>
    /\ \E odd \in WellbeingDays, even \in WellbeingDays :
          wellbeing_entries = WellbeingHistory(odd, even)
    /\ \/ /\ lifestyle_factors = <<1, 2>>
          /\ \E odd \in FactorDays, even \in FactorDays :
                lifestyle_factor_entries = FactorHistory(odd, even)
       \/ /\ lifestyle_factors = <<>>
          /\ lifestyle_factor_entries = <<>>
    /\ pandas_isfinite \in BOOLEAN
    /\ request = NoRequest
    /\ merged = NoTables
    /\ outcomes = NoTables
    /\ response = NoResponse
    /\ pending = NoPending

\* The requests made: <<start_date, end_date, min_samples>>, with a metric
\* filter for the multi-metric sweep, and <<lifestyle_factor_id,
\* start_date, end_date, metric>> for the lag profile.
LegacyRequests ==
    { <<None, None, DefaultMinSamples>>, <<None, None, 3>>,
      <<Some(2), Some(6), 3>>, <<Some(3), None, 3>> }

MultiMetricRequests ==
    { <<None, None, DefaultMinSamples, None>>, <<None, None, 3, None>>,
      <<Some(2), Some(6), 3, None>>,
      <<None, None, 3, Some("energy_level")>>,
      <<None, None, 3, Some("weight")>> }

DetailsRequests ==
    { <<1, None, None, None>>, <<1, Some(2), Some(6), None>>,
      <<1, None, Some(4), None>>, <<1, None, None, Some("energy_level")>>,
      <<2, None, None, None>>, <<3, None, None, None>>,
      <<1, None, None, Some("weight")>> }

Next ==
    \/ \E r \in LegacyRequests :
          get_lifestyle_factor_mood_correlations(r[1], r[2], r[3])
    \/ \E r \in MultiMetricRequests :
          get_multi_metric_correlations(r[1], r[2], r[3], r[4])
    \/ \E r \in DetailsRequests :
          get_lifestyle_factor_correlation_details(r[1], r[2], r[3], r[4])
    \/ Respond

Spec == Init /\ [][Next]_vars

(* ---------------- the metric-scoped sweep specification -------------- *)

\* The number of factors in the store of the metric-scoped sweep.
ManyFactors == 21

\* Every factor has one entry a day, completed every third day, the
\* factors out of step with each other.
ScopedFactorHistory ==
    Concat([d \in 1..HistoryDays |->
        [f \in 1..ManyFactors |->
            [lifestyle_factor_id |-> f, date |-> d,
             completed |-> (d + f) % 3 = 0]]])

InitScoped ==
    /\ habits = <<>>
    /\ habit_entries = <<>>
    /\ \E odd \in WellbeingDays, even \in WellbeingDays :
          wellbeing_entries = WellbeingHistory(odd, even)
    /\ lifestyle_factors = [f \in 1..ManyFactors |-> f]
    /\ lifestyle_factor_entries = ScopedFactorHistory
    /\ pandas_isfinite \in BOOLEAN
    /\ request = NoRequest
    /\ merged = NoTables
    /\ outcomes = NoTables
    /\ response = NoResponse
    /\ pending = NoPending

NextScoped ==
    \/ \E min_samples \in {3, DefaultMinSamples} :
          get_multi_metric_correlations(None, None, min_samples, Some("mood_score"))
    \/ Respond

SpecScoped == InitScoped /\ [][NextScoped]_vars

(* ------------------ the read-only requests specification ------------- *)

\* A store with a habit, two factors and a wellbeing history; the habit has
\* no entries or two.
InitReadOnly ==
    /\ habits = <<[id |-> 1, is_active |-> TRUE]>>
    /\ habit_entries \in
          { <<>>,
            << [habit_id |-> 1, date |-> 2, completed |-> TRUE],
               [habit_id |-> 1, date |-> 1, completed |-> FALSE] >> }
    /\ \E odd \in WellbeingDays, even \in WellbeingDays :
          wellbeing_entries = WellbeingHistory(odd, even)
    /\ lifestyle_factors = <<1, 2>>
    /\ \E odd \in FactorDays :
          lifestyle_factor_entries = FactorHistory(odd, <<TRUE>>)
    /\ pandas_isfinite \in BOOLEAN
    /\ request = NoRequest
    /\ merged = NoTables
    /\ outcomes = NoTables
    /\ response = NoResponse
    /\ pending = NoPending

TrendsRequests == { <<None, None>>, <<Some(2), Some(6)>> }

NextReadOnly ==
    \/ get_lifestyle_factor_mood_correlations(None, None, 3)
    \/ get_multi_metric_correlations(None, None, 3, None)
    \/ \E f \in {1, 3} :
          get_lifestyle_factor_correlation_details(f, None, None, None)
    \/ \E r \in TrendsRequests : get_mood_trends(r[1], r[2])
    \/ \E r \in TrendsRequests : get_wellbeing_trends(r[1], r[2])
    \/ \E f \in {1, 3}, year \in {None, Some(1), Some(2)}, this_year \in {1, 2} :
          get_lifestyle_factor_heatmap(f, year, this_year)
    \/ \E habit_id \in HabitIds, today \in Dates : get_habit_stats(habit_id, today)
    \/ Respond

SpecReadOnly == InitReadOnly /\ [][NextReadOnly]_vars

(* ----------------------- the habits specification -------------------- *)

\* The request bodies of create_habit_entry.
EntryInputs ==
    { [habit_id |-> 1, date |-> 1, completed |-> TRUE, notes |-> Some("done")],
      [habit_id |-> 1, date |-> 1, completed |-> FALSE, notes |-> None],
      [habit_id |-> 1, date |-> 2, completed |-> TRUE, notes |-> None] }

\* The request bodies of update_habit: a new name, or is_active = false.
HabitUpdates ==
    { [name |-> Some("renamed"), is_active |-> None],
      [name |-> None, is_active |-> Some(FALSE)] }

InitHabits ==
    /\ habits = <<[id |-> 1, name |-> "first", is_active |-> TRUE]>>
    /\ habit_entries = <<>>
    /\ lifestyle_factors = <<>>
    /\ lifestyle_factor_entries = <<>>
    /\ wellbeing_entries = <<>>
    /\ pandas_isfinite = TRUE
    /\ request = NoRequest
    /\ merged = NoTables
    /\ outcomes = NoTables
    /\ response = NoResponse
    /\ pending = NoPending

NextHabits ==
    \/ create_habit("second")
    \/ \E include_inactive \in BOOLEAN : get_habits(include_inactive)
    \/ \E habit_id \in HabitIds : get_habit(habit_id)
    \/ \E habit_id \in HabitIds, update_data \in HabitUpdates :
          update_habit(habit_id, update_data)
    \/ \E habit_id \in HabitIds : delete_habit(habit_id)
    \/ \E habit_id \in HabitIds : archive_habit(habit_id)
    \/ \E habit_id \in HabitIds : unarchive_habit(habit_id)
    \/ \E w \in Workers, entry \in EntryInputs : create_habit_entry_query(w, entry)
    \/ \E w \in Workers : create_habit_entry_commit(w)
    \/ \E habit_id \in HabitIds : get_habit_stats(habit_id, MaxDate)
    \/ Respond

SpecHabits == InitHabits /\ [][NextHabits]_vars

(* ------------------------ claims: habit stats ------------------------ *)

StatsAnswered ==
    /\ request.op = "get_habit_stats"
    /\ response.status = 200

\* The rows the statistics were computed from, in date order.
StatsEntries == HabitEntriesOf(request.habit_id)

\* The length of the longest run of adjacent elements of s satisfying P.
LongestRun(s, P(_)) ==
    LET runs == {w \in (1..Len(s)) \X (1..Len(s)) :
                    /\ w[1] <= w[2]
                    /\ \A k \in w[1]..w[2] : P(s[k])}
    IN  IF runs = {} THEN 0
        ELSE CHOOSE n \in 1..Len(s) :
                /\ \E w \in runs : w[2] - w[1] + 1 = n
                /\ \A w \in runs : w[2] - w[1] + 1 <= n

\* The length of the maximal run of elements satisfying P at the end of s.
TrailingRun(s, P(_)) ==
    CHOOSE k \in 0..Len(s) :
        /\ \A i \in (Len(s) - k + 1)..Len(s) : P(s[i])
        /\ k = Len(s) \/ ~ P(s[Len(s) - k])

IsCompleted(e) == e.completed

\* C8: longest_streak is the maximum length of a run of completed entries
\* adjacent in the date-sorted entry sequence; a calendar gap between
\* adjacent entries does not break a run, an incomplete entry does.
C8_LongestStreak ==
    StatsAnswered =>
        response.body.longest_streak = LongestRun(StatsEntries, IsCompleted)

\* A history whose longest run spans a calendar gap and that also holds an
\* incomplete entry.
C8_Witness ==
    /\ StatsAnswered
    /\ response.body.longest_streak = 2
    /\ \E i \in 1..(Len(StatsEntries) - 1) :
          /\ StatsEntries[i].completed
          /\ StatsEntries[i + 1].completed
          /\ StatsEntries[i + 1].date - StatsEntries[i].date > 1
    /\ \E i \in 1..Len(StatsEntries) : ~ StatsEntries[i].completed

\* C9 as stated: current_streak is the length of the maximal run of
\* completed entries at the end of the date-sorted sequence restricted to
\* entries dated <= today.
C9_CurrentStreakAsStated ==
    StatsAnswered =>
        LET NotFuture(e) == e.date <= request.today
        IN  response.body.current_streak =
                TrailingRun(SelectSeq(StatsEntries, NotFuture), IsCompleted)

\* C9 amended: the run counted at the end of the sequence restricted to
\* entries dated <= today is a run of entries that are completed and dated
\* at most len(entries) days before today, len(entries) counting every
\* entry of the habit; the first entry failing either condition ends it.
C9_CurrentStreak ==
    StatsAnswered =>
        LET NotFuture(e) == e.date <= request.today
            Counted(e) == /\ e.completed
                          /\ request.today - e.date <= Len(StatsEntries)
        IN  response.body.current_streak =
                TrailingRun(SelectSeq(StatsEntries, NotFuture), Counted)

\* A future-dated entry was skipped and the run behind it counted.
C9_Witness ==
    /\ StatsAnswered
    /\ response.body.current_streak >= 2
    /\ \E i \in 1..Len(StatsEntries) :
          /\ StatsEntries[i].date > request.today
          /\ ~ StatsEntries[i].completed


(* --------------------- claims: correlation flows --------------------- *)

\* The dates of a metric's daily series as the request sees it: the dates
\* in its range on which some entry has a value for the metric.
SeriesDates(m) ==
    {wellbeing_entries[i].date : i \in {i \in DOMAIN wellbeing_entries :
        /\ InRange(wellbeing_entries[i].date, request.start_date, request.end_date)
        /\ ~ IsNone(wellbeing_entries[i][m])}}

\* The entries of factor f in the request's range.
FactorEntries(f) ==
    {i \in DOMAIN lifestyle_factor_entries :
        /\ lifestyle_factor_entries[i].lifestyle_factor_id = f
        /\ InRange(lifestyle_factor_entries[i].date, request.start_date,
                   request.end_date)}

\* Those dated lag days before d.
FactorEntriesOn(f, lag, d) ==
    {i \in FactorEntries(f) : lifestyle_factor_entries[i].date + lag = d}

Indicator(i) == IF lifestyle_factor_entries[i].completed THEN 1 ELSE 0

\* The rows of the aligned table k dated d.
RowsOn(k, d) == {j \in DOMAIN merged[k] : merged[k][j].date = d}

ColumnValues(k, column) == {merged[k][j][column] : j \in DOMAIN merged[k]}

\* The results a sweep returned, from either endpoint and either grouping.
SweepResults ==
    IF response.status # 200 THEN {}
    ELSE IF request.op = "correlations"
    THEN {response.body[i] : i \in DOMAIN response.body}
    ELSE IF request.op = "multi_metric"
    THEN UNION {{response.body.by_metric[g].correlations[i] :
                    i \in DOMAIN response.body.by_metric[g].correlations} :
                g \in DOMAIN response.body.by_metric}
         \cup
         UNION {{response.body.by_lifestyle_factor[f][i] :
                    i \in DOMAIN response.body.by_lifestyle_factor[f]} :
                f \in DOMAIN response.body.by_lifestyle_factor}
    ELSE {}

\* The slots a lag profile returned.
LagResults ==
    IF /\ request.op = "details"
       /\ response.status = 200
       /\ "correlations" \in DOMAIN response.body
    THEN response.body.correlations
    ELSE <<>>

\* What the response reports for the aligned table k.
Emitted(k) ==
    IF request.op = "details"
    THEN {LagResults[s] : s \in {s \in DOMAIN LagResults : s = LagSlots[k[3] + 1]}}
    ELSE {[correlation |-> r.correlation, p_value |-> r.p_value,
           samples |-> r.sample_size] :
            r \in {r \in SweepResults : /\ r.lifestyle_factor_id = k[1]
                                        /\ r.metric_name = k[2]}}

\* The pearsonr outcomes after which no result is to be emitted.
Faulty(o) ==
    \/ o.raised
    \/ o.correlation.cls # "finite"
    \/ o.p_value.cls # "finite"
    \/ o.correlation.v < -10000
    \/ o.correlation.v > 10000

\* C1: in every flow the aligned table has a row for every date of the
\* metric's daily series and for no other date; where the factor has no
\* entry on the (lag-shifted) date the completion is 0, and otherwise the
\* completions on that date are the factor's values for it.
C1_LeftJoinZeroFill ==
    \A k \in DOMAIN merged :
        /\ ColumnValues(k, "date") = SeriesDates(k[2])
        /\ \A d \in SeriesDates(k[2]) :
              IF FactorEntriesOn(k[1], k[3], d) = {}
              THEN \A j \in RowsOn(k, d) : merged[k][j].completed = Frac(0, 1)
              ELSE {merged[k][j].completed : j \in RowsOn(k, d)}
                   = {Frac(Indicator(i), 1) : i \in FactorEntriesOn(k[1], k[3], d)}

\* A next-day table with a zero-filled date, a date carrying a completion,
\* and a factor entry whose shifted date is not in the metric's series.
C1_Witness ==
    \E k \in DOMAIN merged :
        /\ k[3] = 1
        /\ \E d \in SeriesDates(k[2]) : FactorEntriesOn(k[1], 1, d) = {}
        /\ \E d \in SeriesDates(k[2]) : \E i \in FactorEntriesOn(k[1], 1, d) :
              Indicator(i) = 1
        /\ \E i \in FactorEntries(k[1]) :
              lifestyle_factor_entries[i].date + 1 \notin SeriesDates(k[2])

\* C2: the aligned table has exactly one row per date of the metric's
\* daily series, and every emitted sample size is the number of those
\* dates, however many entries the factor has on one date.
C2_OneRowPerSeriesDate ==
    \A k \in DOMAIN merged :
        /\ Len(merged[k]) = Cardinality(SeriesDates(k[2]))
        /\ \A e \in Emitted(k) : e.samples = Cardinality(SeriesDates(k[2]))

\* C3: on every date the factor has entries for, the aligned table holds
\* one row, whose completion is the mean of that date's indicators.
C3_FactorDailyMean ==
    \A k \in DOMAIN merged : \A d \in SeriesDates(k[2]) :
        LET on == FactorEntriesOn(k[1], k[3], d)
        IN  on # {} =>
              /\ Cardinality(RowsOn(k, d)) = 1
              /\ \A j \in RowsOn(k, d) :
                    merged[k][j].completed =
                        Frac(Cardinality({i \in on : Indicator(i) = 1}),
                             Cardinality(on))

\* C4: a table with fewer rows than the threshold (min_samples in the
\* sweeps, 5 in a lag slot) emits nothing, and every emitted sample size
\* is at least the threshold.
C4_MinSamples ==
    /\ \A k \in DOMAIN merged :
          Len(merged[k]) < (IF request.op = "details" THEN 5
                            ELSE request.min_samples)
              => Emitted(k) = {}
    /\ \A r \in SweepResults : r.sample_size >= request.min_samples
    /\ \A s \in DOMAIN LagResults : LagResults[s].samples >= 5

\* A lag slot one row short of the threshold whose columns both vary,
\* where pd.isfinite resolves.
C4_Witness ==
    /\ request.op = "details"
    /\ pandas_isfinite
    /\ \E k \in DOMAIN merged :
          /\ Len(merged[k]) = 4
          /\ Cardinality(ColumnValues(k, "completed")) >= 2
          /\ Cardinality(ColumnValues(k, "value")) >= 2

\* C5: a table in which the completion or the metric has fewer than two
\* distinct values emits nothing, and the request is answered normally.
C5_NoVariationNoResult ==
    \A k \in DOMAIN merged :
        /\ response.status = 200
        /\ (\/ Cardinality(ColumnValues(k, "completed")) < 2
            \/ Cardinality(ColumnValues(k, "value")) < 2)
              => Emitted(k) = {}

\* A sweep over a table long enough, with a varying completion and a
\* constant metric, where pd.isfinite resolves.
C5_Witness ==
    /\ request.op \in {"correlations", "multi_metric"}
    /\ pandas_isfinite
    /\ response.status = 200
    /\ \E k \in DOMAIN merged :
          /\ Len(merged[k]) >= request.min_samples
          /\ Cardinality(ColumnValues(k, "completed")) >= 2
          /\ Cardinality(ColumnValues(k, "value")) = 1

\* C6: in every flow, a pearsonr call that raises or returns NaN, an
\* infinity or a coefficient outside [-1, 1] emits nothing, and every
\* emitted coefficient (in thousandths) lies in [-1, 1].
C6_FiniteInRange ==
    \A k \in DOMAIN merged :
        /\ (k \in DOMAIN outcomes /\ Faulty(outcomes[k])) => Emitted(k) = {}
        /\ \A e \in Emitted(k) : -1000 <= e.correlation /\ e.correlation <= 1000

\* C7: in the lag profile, the rows of the slot of lag k dated d carry the
\* factor's entries dated d - k, one row for each entry, and a single
\* zero row when there is none; the slot reports that table's row count.
C7_LagShift ==
    request.op = "details" =>
        \A k \in DOMAIN merged :
            /\ \A d \in SeriesDates(k[2]) : \A c \in {0, 1} :
                  Cardinality({j \in RowsOn(k, d) :
                                  merged[k][j].completed = Frac(c, 1)})
                  = IF FactorEntriesOn(k[1], k[3], d) = {}
                    THEN 1 - c
                    ELSE Cardinality({i \in FactorEntriesOn(k[1], k[3], d) :
                                         Indicator(i) = c})
            /\ \A e \in Emitted(k) : e.samples = Len(merged[k])

\* A next-day table in which a completion dated D is carried by the row of
\* D + 1, a date on which the factor itself has no completed entry.
C7_Witness ==
    /\ request.op = "details"
    /\ \E k \in DOMAIN merged :
          /\ k[3] = 1
          /\ \E i \in FactorEntries(k[1]) :
                LET d == lifestyle_factor_entries[i].date + 1
                IN  /\ Indicator(i) = 1
                    /\ d \in SeriesDates(k[2])
                    /\ \A i2 \in FactorEntriesOn(k[1], 0, d) : Indicator(i2) = 0
                    /\ \E j \in RowsOn(k, d) : merged[k][j].completed = Frac(1, 1)

\* The pairs of a sweep that pass every guard of the code: enough rows,
\* two distinct values in each column, and a pearsonr outcome the try
\* block keeps.
Passes(k) ==
    /\ Len(merged[k]) >= request.min_samples
    /\ Cardinality(ColumnValues(k, "completed")) >= 2
    /\ Cardinality(ColumnValues(k, "value")) >= 2
    /\ k \in DOMAIN outcomes
    /\ ~ Faulty(outcomes[k])
    /\ pandas_isfinite

\* C10: in the multi-metric sweep a result is in its metric's by_metric
\* list exactly when it is in its factor's by_lifestyle_factor list, no
\* pair is listed twice, and the pairs listed are the pairs that pass
\* every guard.
C10_GroupingsAgree ==
    (request.op = "multi_metric" /\ response.status = 200) =>
        LET by_metric == response.body.by_metric
            by_lifestyle_factor == response.body.by_lifestyle_factor
        IN  /\ \A g \in DOMAIN by_metric : \A i \in DOMAIN by_metric[g].correlations :
                  LET c == by_metric[g].correlations[i]
                  IN  /\ c.metric_name = by_metric[g].metric_name
                      /\ c.lifestyle_factor_id \in DOMAIN by_lifestyle_factor
                      /\ \E n \in DOMAIN by_lifestyle_factor[c.lifestyle_factor_id] :
                            by_lifestyle_factor[c.lifestyle_factor_id][n] = c
                      /\ \A i2 \in DOMAIN by_metric[g].correlations :
                            by_metric[g].correlations[i2].lifestyle_factor_id
                                = c.lifestyle_factor_id => i2 = i
            /\ \A g, g2 \in DOMAIN by_metric :
                  by_metric[g].metric_name = by_metric[g2].metric_name => g = g2
            /\ \A f \in DOMAIN by_lifestyle_factor :
                  \A n \in DOMAIN by_lifestyle_factor[f] :
                      LET c == by_lifestyle_factor[f][n]
                      IN  /\ c.lifestyle_factor_id = f
                          /\ \E g \in DOMAIN by_metric :
                                /\ by_metric[g].metric_name = c.metric_name
                                /\ \E i \in DOMAIN by_metric[g].correlations :
                                      by_metric[g].correlations[i] = c
                          /\ \A n2 \in DOMAIN by_lifestyle_factor[f] :
                                by_lifestyle_factor[f][n2].metric_name
                                    = c.metric_name => n2 = n
            /\ {<<r.lifestyle_factor_id, r.metric_name>> : r \in SweepResults}
               = {<<k[1], k[2]>> : k \in {k \in DOMAIN merged : Passes(k)}}

\* A multi-metric sweep that lists two metrics and two factors and leaves
\* out a pair that failed a guard.
C10_Witness ==
    /\ request.op = "multi_metric"
    /\ response.status = 200
    /\ Len(response.body.by_metric) >= 2
    /\ Cardinality(DOMAIN response.body.by_lifestyle_factor) >= 2
    /\ \E k \in DOMAIN merged : ~ Passes(k)

(* ------------------ claims: ordering and response shape -------------- *)

\* The list is in non-increasing order of absolute correlation.
NonIncreasingAbs(list) ==
    \A i, j \in DOMAIN list :
        i < j => Abs(list[i].correlation) >= Abs(list[j].correlation)

\* C11: the legacy sweep's list and every by_metric group's list are in
\* non-increasing order of the absolute value of the reported coefficient.
C11_SortedByAbsCorrelation ==
    /\ (request.op = "correlations" /\ response.status = 200)
          => NonIncreasingAbs(response.body)
    /\ (request.op = "multi_metric" /\ response.status = 200)
          => \A g \in DOMAIN response.body.by_metric :
                NonIncreasingAbs(response.body.by_metric[g].correlations)

\* A by_metric list whose first result belongs to the factor the loop
\* visits second, with the strictly larger absolute coefficient.
C11_Witness ==
    /\ request.op = "multi_metric"
    /\ response.status = 200
    /\ \E g \in DOMAIN response.body.by_metric :
          LET list == response.body.by_metric[g].correlations
          IN  /\ Len(list) = 2
              /\ list[1].lifestyle_factor_id = 2
              /\ list[2].lifestyle_factor_id = 1
              /\ Abs(list[1].correlation) > Abs(list[2].correlation)

\* C12: when the sweep is scoped to one declared metric, that metric's
\* by_metric list holds at most 20 results, and no pair left out of it has
\* a larger absolute coefficient than a pair in it.
C12_TopTwenty ==
    (/\ request.op = "multi_metric"
     /\ response.status = 200
     /\ ~ IsNone(request.metric)
     /\ Get(request.metric) \in MetricNames)
        => \A g \in DOMAIN response.body.by_metric :
              LET list == response.body.by_metric[g].correlations
                  listed == {list[i].lifestyle_factor_id : i \in DOMAIN list}
              IN  /\ Len(list) <= 20
                  /\ \A k \in DOMAIN merged :
                        (/\ k[2] = response.body.by_metric[g].metric_name
                         /\ Passes(k)
                         /\ k[1] \notin listed)
                            => \A i \in DOMAIN list :
                                  Abs(RoundFloat(outcomes[k].correlation))
                                      <= Abs(list[i].correlation)

\* C13: a multi-metric sweep or lag profile whose metric is outside the
\* declared set is answered with a caller error, and no aligned table is
\* built and no correlation computed for it.
C13_UnknownMetricRejected ==
    (/\ request.op \in {"multi_metric", "details"}
     /\ ~ IsNone(request.metric)
     /\ Get(request.metric) \notin MetricNames)
        => /\ response.status \in 400..499
           /\ merged = NoTables
           /\ outcomes = NoTables

\* What the sweeps report for the table k after the outcome of its call.
ReportOf(k) ==
    [correlation |-> RoundFloat(outcomes[k].correlation),
     p_value |-> RoundFloat(outcomes[k].p_value),
     samples |-> Len(merged[k])]

\* C14: a sweep always returns normally, and what it reports for a pair
\* is decided by that pair's table and outcome alone: a pair that passes
\* is reported with its own values whatever happened to the other pairs,
\* and a degenerate or failing pair is left out.
C14_FailingPairSkipped ==
    request.op \in {"correlations", "multi_metric"} =>
        /\ response.status = 200
        /\ \A k \in DOMAIN merged :
              Emitted(k) = IF Passes(k) THEN {ReportOf(k)} ELSE {}

\* A sweep in which a factor's mood_score computation raised and the same
\* factor's energy_level pair is reported.
C14_Witness ==
    /\ request.op = "multi_metric"
    /\ \E f \in 1..2 :
          /\ <<f, "mood_score", 0>> \in DOMAIN outcomes
          /\ outcomes[<<f, "mood_score", 0>>].raised
          /\ <<f, "energy_level", 0>> \in DOMAIN merged
          /\ Emitted(<<f, "energy_level", 0>>) # {}

\* No wellbeing entry lies in the request's range.
NoWellbeingInRange ==
    \A i \in DOMAIN wellbeing_entries :
        ~ InRange(wellbeing_entries[i].date, request.start_date, request.end_date)

\* C15: a sweep over no factors, or over a range without wellbeing
\* entries, returns the empty structures with status 200.
C15_EmptySweep ==
    (/\ request.op \in {"correlations", "multi_metric"}
     /\ (lifestyle_factors = <<>> \/ NoWellbeingInRange))
        => response = IF request.op = "correlations"
                      THEN [status |-> 200, body |-> <<>>]
                      ELSE [status |-> 200,
                            body |-> [by_metric |-> <<>>,
                                      by_lifestyle_factor |-> <<>>]]

\* A multi-metric sweep over factors with entries and no wellbeing entry.
C15_Witness ==
    /\ request.op = "multi_metric"
    /\ lifestyle_factors # <<>>
    /\ lifestyle_factor_entries # <<>>
    /\ NoWellbeingInRange

\* The metric a lag profile analyses.
ProfileMetric ==
    IF IsNone(request.metric) THEN "mood_score" ELSE Get(request.metric)

\* C16: every lag profile that is answered carries same_day, next_day,
\* two_days and data_points, and a slot that reports nothing is null.
C16_FourFields ==
    (request.op = "details" /\ response.status = 200) =>
        /\ {"same_day", "next_day", "two_days", "data_points"}
              \subseteq DOMAIN response.body
        /\ \A k \in DOMAIN merged :
              Emitted(k) = {} => response.body[LagSlots[k[3] + 1]] = None

\* C17: a lag profile for a factor without entries in range, or without
\* wellbeing entries in range, or without a value for the metric in
\* range, has same_day, next_day and two_days null and no data points.
C17_NoHistoryProfile ==
    (/\ request.op = "details"
     /\ response.status = 200
     /\ \/ FactorEntries(request.lifestyle_factor_id) = {}
        \/ NoWellbeingInRange
        \/ SeriesDates(ProfileMetric) = {})
        => /\ {"same_day", "next_day", "two_days", "data_points"}
                 \subseteq DOMAIN response.body
           /\ response.body.same_day = None
           /\ response.body.next_day = None
           /\ response.body.two_days = None
           /\ response.body.data_points = <<>>

\* A profile of energy_level for a factor with entries, where wellbeing
\* entries exist and none has an energy level.
C17_Witness ==
    /\ request.op = "details"
    /\ response.status = 200
    /\ ProfileMetric = "energy_level"
    /\ FactorEntries(request.lifestyle_factor_id) # {}
    /\ ~ NoWellbeingInRange
    /\ SeriesDates("energy_level") = {}

\* C18: the data points of a lag profile are one point for each date that
\* is both in the metric's series and a date of the factor's entries, and
\* no other.
C18_InnerJoinDataPoints ==
    (/\ request.op = "details"
     /\ response.status = 200
     /\ "data_points" \in DOMAIN response.body)
        => LET points == response.body.data_points
               both == {d \in SeriesDates(ProfileMetric) :
                           FactorEntriesOn(request.lifestyle_factor_id, 0, d) # {}}
           IN  /\ {points[i].date : i \in DOMAIN points} = both
               /\ \A d \in both :
                     Cardinality({i \in DOMAIN points : points[i].date = d}) = 1

\* The entries in range dated d that have a value for the metric m.
ValuedEntries(m, d) ==
    {i \in DOMAIN wellbeing_entries :
        /\ wellbeing_entries[i].date = d
        /\ InRange(d, request.start_date, request.end_date)
        /\ ~ IsNone(wellbeing_entries[i][m])}

RECURSIVE SumOfMetric(_, _)
SumOfMetric(I, m) ==
    IF I = {} THEN 0
    ELSE LET i == CHOOSE i \in I : TRUE
         IN  Get(wellbeing_entries[i][m]) + SumOfMetric(I \ {i}, m)

\* C19: every row of every aligned table is dated on a day with a value
\* for the metric, and holds the mean of that day's values, entries
\* without a value left out; an emitted sample size counts those rows.
C19_NullsIgnored ==
    \A k \in DOMAIN merged :
        /\ \A j \in DOMAIN merged[k] :
              LET I == ValuedEntries(k[2], merged[k][j].date)
              IN  /\ I # {}
                  /\ merged[k][j].value = Frac(SumOfMetric(I, k[2]), Cardinality(I))
        /\ \A e \in Emitted(k) : e.samples = Len(merged[k])

\* An energy_level table over a history with a day whose entries all lack
\* an energy level and a day with two entries of which one lacks it.
C19_Witness ==
    \E k \in DOMAIN merged :
        /\ k[2] = "energy_level"
        /\ \E i \in DOMAIN wellbeing_entries :
              /\ InRange(wellbeing_entries[i].date, request.start_date,
                         request.end_date)
              /\ ValuedEntries("energy_level", wellbeing_entries[i].date) = {}
        /\ \E i, i2 \in DOMAIN wellbeing_entries :
              /\ wellbeing_entries[i].date = wellbeing_entries[i2].date
              /\ IsNone(wellbeing_entries[i].energy_level)
              /\ i2 \in ValuedEntries("energy_level", wellbeing_entries[i].date)
              /\ \E j \in DOMAIN merged[k] :
                    /\ merged[k][j].date = wellbeing_entries[i].date
                    /\ merged[k][j].value =
                          Frac(Get(wellbeing_entries[i2].energy_level), 1)

(* --------------------- claims: completion statistics ------------------ *)

\* The rows of habit_entries that belong to the habit of the request.
StatsRows == {i \in DOMAIN habit_entries :
                 habit_entries[i].habit_id = request.habit_id}

\* C20: for a non-empty history total_days is the number of entries,
\* completed_days the number of completed entries, and completion_rate
\* (in hundredths) the multiple of 0.01 nearest to completed / total x 100.
C20_CompletionStats ==
    (StatsAnswered /\ StatsRows # {}) =>
        LET total == Cardinality(StatsRows)
            completed == Cardinality({i \in StatsRows : habit_entries[i].completed})
            rate == response.body.completion_rate
        IN  /\ response.body.total_days = total
            /\ response.body.completed_days = completed
            /\ 2 * Abs(rate * total - 10000 * completed) <= total
            /\ 2 * Abs(rate * total - 10000 * completed) = total => rate % 2 = 0

\* Three entries, two of them on one day, two of them completed: 66.67.
C20_Witness ==
    /\ StatsAnswered
    /\ Cardinality(StatsRows) = 3
    /\ response.body.completed_days = 2
    /\ response.body.completion_rate = 6667
    /\ \E i, i2 \in StatsRows :
          i # i2 /\ habit_entries[i].date = habit_entries[i2].date

(* ------------------------ claims: edge cases -------------------------- *)

\* C21: for an existing habit without entries the statistics request is
\* answered without error, with total_days, completed_days,
\* completion_rate, current_streak and longest_streak all 0.
C21_NoEntriesAllZero ==
    (/\ request.op = "get_habit_stats"
     /\ \E i \in DOMAIN habits : habits[i].id = request.habit_id
     /\ StatsRows = {}) =>
        /\ response.status = 200
        /\ response.body.total_days = 0
        /\ response.body.completed_days = 0
        /\ response.body.completion_rate = 0
        /\ response.body.current_streak = 0
        /\ response.body.longest_streak = 0

\* The statistics of the existing habit 1 were asked for while the entry
\* table is empty.
C21_Witness ==
    /\ StatsAnswered
    /\ request.habit_id = 1
    /\ habit_entries = <<>>
    /\ response.body.total_days = 0

\* C22: in every emitted result the significant flag equals
\* (p_value < 0.05) for the p_value the result carries, the value rounded
\* to 4 decimal places (in ten-thousandths: p_value < 500).
C22_SignificantMatchesReported ==
    \A r \in SweepResults : r.significant = (r.p_value < 500)

(* ------------------------- claims: date range ------------------------- *)

\* d is on or after the request's start_date, if one was given, and on or
\* before its end_date, if one was given.
WithinBounds(d) ==
    /\ request.start_date = <<>> \/ request.start_date[1] <= d
    /\ request.end_date = <<>> \/ d <= request.end_date[1]

\* The entries of factor f within the bounds that are dated lag days
\* before d.
BoundedFactorEntries(f, lag, d) ==
    {i \in DOMAIN lifestyle_factor_entries :
        /\ lifestyle_factor_entries[i].lifestyle_factor_id = f
        /\ lifestyle_factor_entries[i].date + lag = d
        /\ WithinBounds(lifestyle_factor_entries[i].date)}

\* The dates within the bounds on which an entry has a value for metric m.
BoundedMetricDates(m) ==
    {wellbeing_entries[i].date : i \in {i \in DOMAIN wellbeing_entries :
        /\ ~ IsNone(wellbeing_entries[i][m])
        /\ WithinBounds(wellbeing_entries[i].date)}}

\* C23: the bounds are optional and inclusive.  In every aligned table of
\* the sweeps and the lag profile the dates are those of the wellbeing
\* entries with start_date <= d <= end_date (each bound only when given),
\* and the completions of a date are those of the factor entries within
\* the same bounds, 0 when there is none; the data points of the lag
\* profile are dated on the dates both have within the bounds.
C23_InclusiveBounds ==
    /\ \A k \in DOMAIN merged :
          /\ ColumnValues(k, "date") = BoundedMetricDates(k[2])
          /\ \A d \in BoundedMetricDates(k[2]) :
                {merged[k][j].completed : j \in RowsOn(k, d)}
                = IF BoundedFactorEntries(k[1], k[3], d) = {}
                  THEN {Frac(0, 1)}
                  ELSE {Frac(Indicator(i), 1) :
                            i \in BoundedFactorEntries(k[1], k[3], d)}
    /\ (/\ request.op = "details"
        /\ response.status = 200
        /\ "data_points" \in DOMAIN response.body)
          => {response.body.data_points[i].date :
                 i \in DOMAIN response.body.data_points}
             = {d \in BoundedMetricDates(ProfileMetric) :
                   BoundedFactorEntries(request.lifestyle_factor_id, 0, d) # {}}

\* A request for days 2..6 over a history that has entries on every day
\* from 1 to 7: the same-day table has rows for days 2 and 6, the latter
\* with the completion entered on day 6, and none for days 1 and 7.
C23_Witness ==
    /\ request.op # "none"
    /\ request.start_date = <<2>>
    /\ request.end_date = <<6>>
    /\ \A d \in {1, 2, 6, 7} :
          \E i \in DOMAIN wellbeing_entries : wellbeing_entries[i].date = d
    /\ \E k \in DOMAIN merged :
          /\ k[3] = 0
          /\ \A d \in {1, 2, 6, 7} :
                \E i \in DOMAIN lifestyle_factor_entries :
                   /\ lifestyle_factor_entries[i].lifestyle_factor_id = k[1]
                   /\ lifestyle_factor_entries[i].date = d
          /\ {2, 6} \subseteq ColumnValues(k, "date")
          /\ {1, 7} \cap ColumnValues(k, "date") = {}
          /\ \E j \in RowsOn(k, 6) : merged[k][j].completed = Frac(1, 1)

(* ------------------------ claims: metric filter ----------------------- *)

\* C24: when the multi-metric sweep is given a filter naming a declared
\* metric, every result in by_metric and in by_lifestyle_factor has that
\* metric_name, and by_metric has at most one group, the group of that
\* metric.
C24_MetricFilter ==
    (/\ request.op = "multi_metric"
     /\ request.metric # <<>>
     /\ request.metric[1] \in MetricNames) =>
        /\ response.status = 200
        /\ \A r \in SweepResults : r.metric_name = request.metric[1]
        /\ Len(response.body.by_metric) <= 1
        /\ \A g \in DOMAIN response.body.by_metric :
              response.body.by_metric[g].metric_name = request.metric[1]

\* A sweep filtered on energy_level returned a result, over a history in
\* which mood_score varies as well.
C24_Witness ==
    /\ request.op = "multi_metric"
    /\ request.metric = <<"energy_level">>
    /\ response.status = 200
    /\ Len(response.body.by_metric) = 1
    /\ \E f \in DOMAIN response.body.by_lifestyle_factor :
          response.body.by_lifestyle_factor[f] # <<>>
    /\ Cardinality({wellbeing_entries[i].mood_score :
                       i \in DOMAIN wellbeing_entries}) >= 2

(* ------------------------ claims: frame effects ----------------------- *)

\* C25: no analytics or statistics request (legacy correlations,
\* multi-metric sweep, lag profile, trends, heatmap, habit stats) changes a
\* stored habit, factor, entry or wellbeing entry, and when a request has
\* been answered nothing of it remains: the next request starts from the
\* same store and from no tables, outcomes or response of an earlier one.
C25_ReadOnly ==
    [][/\ store' = store
       /\ request' = NoRequest =>
             /\ response' = NoResponse
             /\ merged' = NoTables
             /\ outcomes' = NoTables]_vars

\* The statistics of a habit without entries were returned while the store
\* holds factor entries and wellbeing entries.
C25_Witness ==
    /\ StatsAnswered
    /\ request.habit_id = 1
    /\ habit_entries = <<>>
    /\ lifestyle_factor_entries # <<>>
    /\ wellbeing_entries # <<>>

(* ------------------------- claims: aggregation ------------------------ *)

\* The entries within the request's bounds that have a value for metric m.
MetricInput(m) ==
    {i \in DOMAIN wellbeing_entries :
        /\ ~ IsNone(wellbeing_entries[i][m])
        /\ WithinBounds(wellbeing_entries[i].date)}

\* The entries of factor f within the request's bounds.
FactorInput(f) ==
    {i \in DOMAIN lifestyle_factor_entries :
        /\ lifestyle_factor_entries[i].lifestyle_factor_id = f
        /\ WithinBounds(lifestyle_factor_entries[i].date)}

\* No two of the entries I of the table entries are on one date.
OnePerDate(entries, I) ==
    \A i, i2 \in I : entries[i].date = entries[i2].date => i = i2

\* C26: aggregating a series with exactly one entry per date is the
\* identity.  Where the metric's input has one entry per date, the aligned
\* table pairs each input date with that entry's value and has no other
\* date; where the factor's input has one entry per date as well, the
\* same-day table has one row per date, carrying that date's completion.
C26_SingleEntryIdentity ==
    \A k \in DOMAIN merged :
        /\ OnePerDate(wellbeing_entries, MetricInput(k[2])) =>
              {<<merged[k][j].date, merged[k][j].value>> : j \in DOMAIN merged[k]}
              = {<<wellbeing_entries[i].date,
                   Frac(wellbeing_entries[i][k[2]][1], 1)>> : i \in MetricInput(k[2])}
        /\ (/\ k[3] = 0
            /\ OnePerDate(wellbeing_entries, MetricInput(k[2]))
            /\ OnePerDate(lifestyle_factor_entries, FactorInput(k[1]))) =>
              /\ Len(merged[k]) = Cardinality(MetricInput(k[2]))
              /\ \A i \in FactorInput(k[1]) : \A j \in DOMAIN merged[k] :
                    merged[k][j].date = lifestyle_factor_entries[i].date =>
                       merged[k][j].completed = Frac(Indicator(i), 1)

\* A same-day table of seven rows built from one wellbeing entry a day,
\* with mood scores 3 and 4, and one factor entry a day, some completed.
C26_Witness ==
    \E k \in DOMAIN merged :
        /\ k[3] = 0
        /\ k[2] = "mood_score"
        /\ OnePerDate(wellbeing_entries, MetricInput(k[2]))
        /\ OnePerDate(lifestyle_factor_entries, FactorInput(k[1]))
        /\ Len(merged[k]) = 7
        /\ {merged[k][j].value : j \in DOMAIN merged[k]} = {Frac(3, 1), Frac(4, 1)}
        /\ {merged[k][j].completed : j \in DOMAIN merged[k]} = {Frac(0, 1), Frac(1, 1)}

(* --------------------- claims: habits and entries --------------------- *)

\* C27: create_habit_entry is an upsert keyed on (habit_id, date): the
\* entries table holds at most one row per (habit_id, date), also when the
\* existence checks and inserts of two calls interleave, and when a call
\* has completed the row of its key has its completed and notes.
C27_UpsertOnePerDate ==
    /\ \A i, i2 \in DOMAIN habit_entries :
          (/\ habit_entries[i].habit_id = habit_entries[i2].habit_id
           /\ habit_entries[i].date = habit_entries[i2].date) => i = i2
    /\ request.op = "create_habit_entry" =>
          \A i \in DOMAIN habit_entries :
             (/\ habit_entries[i].habit_id = request.entry.habit_id
              /\ habit_entries[i].date = request.entry.date) =>
                /\ habit_entries[i].completed = request.entry.completed
                /\ habit_entries[i].notes = request.entry.notes

\* The habit rows a listing shows.
ListedHabits(include_inactive) ==
    LET Listed(h) == include_inactive \/ h.is_active
    IN  SelectSeq(habits, Listed)

\* C30: no step removes a habit row or an entry row or changes a row's
\* key.  delete_habit and archive_habit of a stored habit set its is_active
\* to false and unarchive_habit sets it to true, changing nothing else in
\* either table.  get_habits lists the active rows, or all of them with
\* include_inactive, and get_habit and get_habit_stats answer for every
\* stored habit, active or not.
C30_SoftDelete ==
    [][/\ Len(habits') >= Len(habits)
       /\ \A i \in DOMAIN habits : habits'[i].id = habits[i].id
       /\ Len(habit_entries') >= Len(habit_entries)
       /\ \A i \in DOMAIN habit_entries :
             /\ habit_entries'[i].habit_id = habit_entries[i].habit_id
             /\ habit_entries'[i].date = habit_entries[i].date
       /\ (/\ request = NoRequest
           /\ request'.op \in {"delete_habit", "archive_habit", "unarchive_habit"}) =>
             /\ habit_entries' = habit_entries
             /\ habits' = [i \in DOMAIN habits |->
                             IF habits[i].id = request'.habit_id
                             THEN [habits[i] EXCEPT
                                     !.is_active = (request'.op = "unarchive_habit")]
                             ELSE habits[i]]
             /\ response'.status =
                   IF \E i \in DOMAIN habits : habits[i].id = request'.habit_id
                   THEN 200 ELSE 404
       /\ (request = NoRequest /\ request'.op = "get_habits") =>
             response' = Ok(ListedHabits(request'.include_inactive))
       /\ (/\ request = NoRequest
           /\ request'.op \in {"get_habit", "get_habit_stats"}
           /\ \E i \in DOMAIN habits : habits[i].id = request'.habit_id) =>
             response'.status = 200]_vars

\* delete_habit has answered for a habit that has entries: its row is
\* still stored, inactive and renamed earlier, and so are its entries.
C30_Witness ==
    /\ request.op = "delete_habit"
    /\ response.status = 200
    /\ \E i \in DOMAIN habits :
          /\ habits[i].id = request.habit_id
          /\ habits[i].is_active = FALSE
          /\ habits[i].name = "renamed"
    /\ \E i \in DOMAIN habit_entries : habit_entries[i].habit_id = request.habit_id

(* ---------------------- claims: statistics bounds --------------------- *)

\* C28: for every entry history and every today the statistics satisfy
\* 0 <= current_streak <= longest_streak <= completed_days <= total_days
\* and 0 <= completion_rate <= 100 (in hundredths: 10000).
C28_StatsOrdered ==
    StatsAnswered =>
        /\ 0 <= response.body.current_streak
        /\ response.body.current_streak <= response.body.longest_streak
        /\ response.body.longest_streak <= response.body.completed_days
        /\ response.body.completed_days <= response.body.total_days
        /\ 0 <= response.body.completion_rate
        /\ response.body.completion_rate <= 10000

\* Statistics in which every inequality is strict: one completed entry
\* counted from today, a longer run before an incomplete entry.
C28_Witness ==
    /\ StatsAnswered
    /\ response.body.current_streak = 1
    /\ response.body.longest_streak = 2
    /\ response.body.completed_days = 3
    /\ response.body.total_days = 4
    /\ response.body.completion_rate = 7500

(* ------------------- claims: lag profile and sweep -------------------- *)

\* The aligned tables the multi-metric sweep builds from the store for the
\* date range of the request.
SweepTablesOfRequest ==
    SweepTables(MetricDataframes(WellbeingQuery(request.start_date, request.end_date),
                                 WELLBEING_METRICS),
                request.start_date, request.end_date)

\* The pair of an answered lag profile, as a key of the sweep's tables.
ProfilePair == <<request.lifestyle_factor_id, ProfileMetric, 0>>

\* The pair passes the sweep's guards with the default min_samples.
SweepEvaluates ==
    /\ ProfilePair \in DOMAIN SweepTablesOfRequest
    /\ SweepGuardsPass(SweepTablesOfRequest[ProfilePair], DefaultMinSamples)

\* C29: for the factor, metric, date range and store of a lag profile,
\* whenever the multi-metric sweep with the default min_samples evaluates
\* the pair, the same-day slot is computed from the same aligned table,
\* and whenever the sweep emits a result for what pearsonr returns on that
\* table, same_day is present with the sweep's correlation and p_value and
\* with samples equal to the sweep's sample_size.
C29_LagZeroAgreesWithSweep ==
    (/\ request.op = "details"
     /\ response.status = 200
     /\ SweepEvaluates) =>
        /\ ProfilePair \in DOMAIN merged
        /\ merged[ProfilePair] = SweepTablesOfRequest[ProfilePair]
        /\ ProfilePair \in DOMAIN outcomes
        /\ SweepAccepts(outcomes[ProfilePair]) =>
              LET result == CorrelationResult(request.lifestyle_factor_id, ProfileMetric,
                                              outcomes[ProfilePair],
                                              SweepTablesOfRequest[ProfilePair])
              IN  /\ "same_day" \in DOMAIN LagResults
                  /\ LagResults["same_day"].correlation = result.correlation
                  /\ LagResults["same_day"].p_value = result.p_value
                  /\ LagResults["same_day"].samples = result.sample_size

\* A lag profile over seven metric dates for a pair the sweep evaluates
\* and emits: same_day reports seven samples.
C29_Witness ==
    /\ request.op = "details"
    /\ response.status = 200
    /\ SweepEvaluates
    /\ ProfilePair \in DOMAIN outcomes
    /\ SweepAccepts(outcomes[ProfilePair])
    /\ "same_day" \in DOMAIN LagResults
    /\ LagResults["same_day"].samples = 7

====
